---- MODULE Spec2Model ----
(***************************************************************************)
(* Order orchestration of PostcardService (src/PostcardService/main.py):   *)
(* the in-memory transaction_store, the /generate-complete-postcard,       *)
(* /payment-confirmed, /submit-to-stannp, /stripe-webhook,                 *)
(* /process-free-postcard and /manual-process-payment handlers, the Stannp *)
(* retry loop, the e-mail dispatcher and the coupon tables they touch.     *)
(*                                                                         *)
(* The handlers are coroutines on one asyncio event loop.  A handler runs  *)
(* atomically up to the next point where it really suspends; the only such *)
(* point inside the order handlers is the asyncio.sleep of the retry loop, *)
(* and a coroutine started with asyncio.create_task starts running later.  *)
(* An action of this module is one such atomic run.                        *)
(***************************************************************************)
EXTENDS Integers, Sequences, FiniteSets, TLC

VARIABLES
    transaction_store,  \* transaction id -> the dict stored under it (NoTxn: no entry)
    tasks,              \* submit_to_stannp coroutines not yet finished
    prints,             \* per transaction: HTTP 200 answers of the vendor so far
    coupon_codes,       \* table coupon_codes, keyed by the stored code
    coupon_redemptions, \* table coupon_redemptions, in insertion order
    now,                \* datetime.utcnow(), in days
    payment_sessions,   \* transaction id -> the dict of create_payment_session (NoSession: no entry)
    coupon_campaigns,   \* table coupon_campaigns, in insertion order
    coupon_code_rows,   \* the rows of table coupon_codes, in insertion order
    stripe_objects,     \* the coupons and promotion codes Stripe holds for the month
    jobs,               \* the runs of create_monthly_coupon, each at its position
    engine_call,        \* the latest call of a function of the compositing engine or of a
                        \* builder of the vendor payload
    last                \* what the latest atomic run did (request, response, e-mails, vendor call)

vars == <<transaction_store, tasks, prints, coupon_codes, coupon_redemptions, now,
          payment_sessions, coupon_campaigns, coupon_code_rows, stripe_objects, jobs,
          engine_call, last>>

\* what no request handler writes
aside == <<coupon_campaigns, coupon_code_rows, stripe_objects, jobs, engine_call>>

\* what the order handlers of transaction_store never write
elsewhere == <<now, payment_sessions, aside>>

-----------------------------------------------------------------------------
(* Bounds of the model *)

\* coroutines of submit_to_stannp that are suspended or not yet started
MaxTasks == 1
\* HTTP 200 answers of the vendor per transaction
MaxPrints == 2
\* rows added to coupon_redemptions
MaxTimesRedeemed == 2

TxnIds == {"t1"}
TaskIds == 1..MaxTasks

\* a dict key that is not set / a Python None
NoKey == "<absent>"

Emails == {"", " ", "a@x.com"}
PaymentIntentIds == {"pi_1", "pi_promo"}
MintedCode == "XLWelcomeNov"

\* payment_sessions.get(transaction_id) when there is no entry
NoSession == [status |-> NoKey, userEmail |-> NoKey, stripe_session_id |-> NoKey,
              stripe_payment_intent_id |-> NoKey]

-----------------------------------------------------------------------------
(* Strings *)

\* str.strip() on the e-mail values of the model
Strip(s) == IF s = " " THEN "" ELSE s

\* Python truthiness of a string or None
Truthy(s) == s # "" /\ s # NoKey

Range(f) == {f[i] : i \in DOMAIN f}

-----------------------------------------------------------------------------
(* Notification dispatcher: send_email_notification *)

\* The HTML body the dispatcher builds: the fixed "successfully submitted"
\* template with the first name taken from the address.  The message argument
\* is not part of it.
EmailHtml(to_email, message) ==
    <<"Hi ", to_email, "Your postcard has been successfully submitted for printing and mailing!">>

\* One call of send_email_notification: the parameters handed to the e-mail
\* provider.  Whatever the provider does with them, the function catches it, logs
\* it and returns nothing (lines 1048-1050), so the outcome reaches no caller.
send_email_notification(to_email, subject, message) ==
    [to |-> to_email, subject |-> subject, html |-> EmailHtml(to_email, message)]

AdminAddress == "info@xlpostcards.com"

\* the text an e-mail carries
EmailText(e) == Range(e.subject) \cup Range(e.html)

-----------------------------------------------------------------------------
(* Print submission client: submit_to_stannp_api *)

\* What one request to the vendor may end in.  A 200 answer carries the order
\* id the vendor assigned under data.id (read by submit_to_stannp_with_transaction_data,
\* as data.pdf is read in main.py) and may carry an id at the top level as well.
VendorResponses ==
    { [kind |-> "http", status_code |-> "200", id |-> "v1", data_id |-> "v1", text |-> "created"],
      [kind |-> "http", status_code |-> "200", id |-> NoKey, data_id |-> "v1", text |-> "created"],
      [kind |-> "http", status_code |-> "400", id |-> NoKey, data_id |-> NoKey, text |-> "bad address"],
      [kind |-> "timeout", status_code |-> "", id |-> NoKey, data_id |-> NoKey, text |-> ""],
      [kind |-> "connection_error", status_code |-> "", id |-> NoKey, data_id |-> NoKey, text |-> ""] }

\* for attempt in range(3)
MaxAttempts == 3

\* timeout = 30 + (attempt * 15)
AttemptTimeout(attempt) == 30 + (attempt * 15)

\* a back-off that does not grow
WaitTimeFlat(attempt) == 5

\* wait_time = 5 * (attempt + 1)
WaitTime(attempt) == 5 * (attempt + 1)

\* a loop that also retries after an HTTP error answer
AttemptResultRetryAll(attempt, resp) ==
    IF resp.status_code = "200" THEN "return"
    ELSE IF attempt < 2 THEN "retry" ELSE "raise"

\* What one pass of the loop body does with the vendor's answer:
\* "return" the result, "retry" after a sleep, or "raise".
AttemptResult(attempt, resp) ==
    IF resp.kind = "http"
    THEN IF resp.status_code = "200" THEN "return" ELSE "raise"
    ELSE IF attempt < 2 THEN "retry" ELSE "raise"

\* str() of the exception the loop raises
AttemptError(attempt, resp) ==
    IF resp.kind = "http"
    THEN <<"Stannp API error: ", "Stannp submission failed: ", resp.status_code, resp.text>>
    ELSE IF resp.kind = "timeout"
         THEN <<"Stannp API timeout after 3 attempts">>
         ELSE <<"Stannp API connection error after 3 attempts">>

-----------------------------------------------------------------------------
(* The transaction dicts *)

NoTxn == [status |-> NoKey, userEmail |-> NoKey, stripePaymentIntentId |-> NoKey,
          stannp_id |-> NoKey]

\* A coroutine of submit_to_stannp.  txn = transaction_store[id] is bound once,
\* at its start.  detached: generate has since stored a new dict under the id,
\* so the coroutine's txn is a dict nothing else can reach; of that dict the
\* coroutine reads only userEmail, kept here as it was when the dict was replaced.
Idle == [pc |-> "idle", t |-> NoKey, caller |-> NoKey, attempt |-> 0,
         detached |-> FALSE, userEmail |-> NoKey, timeouts |-> << >>, outcomes |-> << >>, waits |-> << >>]

\* transaction_store[t] = {...} replaces the dict the suspended coroutines hold
Detach(tks, t, old) ==
    [k \in TaskIds |->
        IF tks[k].pc = "sleeping" /\ tks[k].t = t /\ ~tks[k].detached
        THEN [tks[k] EXCEPT !.detached = TRUE, !.userEmail = old.userEmail]
        ELSE tks[k]]

\* the dict generate_complete_postcard stores (main.py 1339-1357)
GeneratedDict(old, userEmail) ==
    LET existing_email == IF old # NoTxn THEN old.userEmail ELSE ""
        final_email == IF Truthy(userEmail) THEN userEmail ELSE existing_email
    IN  [status |-> "ready_for_payment", userEmail |-> final_email,
         stripePaymentIntentId |-> NoKey, stannp_id |-> NoKey]

\* the e-mail update of payment_confirmed (main.py 1435-1437)
ConfirmedEmail(existing_email, userEmail) ==
    IF ~Truthy(existing_email) /\ Truthy(userEmail) THEN userEmail ELSE existing_email

\* the status and reference update of payment_confirmed, the webhook and
\* manual_process_payment
MarkPaid(d, pi) ==
    [d EXCEPT !.status = "payment_confirmed", !.stripePaymentIntentId = pi]

-----------------------------------------------------------------------------
(* submit_to_stannp: the guard, the success path and the except path *)

\* if txn["status"] != "payment_confirmed": raise HTTPException(400)
SubmitGuard(d) == d.status = "payment_confirmed"

\* txn["stannp_id"] = stannp_result.get("id", f"stannp_{transactionId}")
StannpId(resp, t) == IF resp.id # NoKey THEN resp.id ELSE "stannp_" \o t

\* lines 1471-1472, on the dict the coroutine took at its start
SuccessDict(d, resp, t) ==
    [d EXCEPT !.status = "submitted_to_stannp", !.stannp_id = StannpId(resp, t)]

\* lines 1479-1490
SuccessEmails(userEmail) ==
    IF Strip(userEmail) # ""
    THEN <<send_email_notification(Strip(userEmail),
               <<"Your Postcard Was Successfully Sent!">>, << >>)>>
    ELSE << >>

\* lines 1502-1518, on the dict stored now
FailureEmails(d, t) ==
    (IF Truthy(d.userEmail)
     THEN <<send_email_notification(d.userEmail, <<"Postcard Processing Issue">>,
                <<"Your postcard could not be processed. You will receive a credit within 24 hours.">>)>>
     ELSE << >>)
    \o <<send_email_notification(AdminAddress, <<"Manual Refund Required - ", t>>,
             <<"Transaction ", t, " failed Stannp submission. Please issue Stripe refund for payment ",
               d.stripePaymentIntentId>>)>>

\* line 1520
FailureDict(d) == [d EXCEPT !.status = "failed"]

\* One pass of the retry loop, and what submit_to_stannp does with its outcome.
\* s is the store at that moment; detached and userEmail describe the
\* coroutine's txn; timeouts, outcomes and waits are the timeout of each request
\* sent so far, how each ended, and the sleeps taken.
Attempt(s, t, detached, userEmail, attempt, timeouts, outcomes, waits, resp) ==
    LET call == [timeout |-> AttemptTimeout(attempt),
                 stored_status |-> s[t].status, resp |-> resp]
        r == AttemptResult(attempt, resp)
        txnEmail == IF detached THEN userEmail ELSE s[t].userEmail
        base == [store |-> s, emails |-> << >>, call |-> <<call>>, kind |-> "sleep",
                 detail |-> << >>, printed |-> IF resp.status_code = "200" THEN 1 ELSE 0,
                 attempt |-> attempt,
                 timeouts |-> Append(timeouts, AttemptTimeout(attempt)),
                 outcomes |-> Append(outcomes, resp.kind), waits |-> waits]
    IN  IF r = "return"
        THEN [base EXCEPT !.store = IF detached THEN s
                                    ELSE [s EXCEPT ![t] = SuccessDict(@, resp, t)],
                          !.emails = SuccessEmails(txnEmail),
                          !.kind = "ok"]
        ELSE IF r = "raise"
        THEN [base EXCEPT !.store = [s EXCEPT ![t] = FailureDict(@)],
                          !.emails = FailureEmails(s[t], t),
                          !.kind = "error", !.detail = AttemptError(attempt, resp)]
        ELSE [base EXCEPT !.waits = Append(waits, WaitTime(attempt))]

\* submit_to_stannp from its first line to its first suspension or its end
SubmitEntry(s, t, resp) ==
    LET none == [store |-> s, emails |-> << >>, call |-> << >>, kind |-> "error",
                 detail |-> <<"404", "Transaction not found">>, printed |-> 0,
                 attempt |-> 0, timeouts |-> << >>, outcomes |-> << >>, waits |-> << >>]
    IN  IF s[t] = NoTxn
        THEN none
        ELSE IF ~SubmitGuard(s[t])
        THEN [none EXCEPT !.store = [s EXCEPT ![t] = FailureDict(@)],
                          !.emails = FailureEmails(s[t], t),
                          !.detail = <<"400", "Payment not confirmed">>]
        ELSE Attempt(s, t, FALSE, NoKey, 0, << >>, << >>, << >>, resp)

\* submit_to_stannp after its asyncio.sleep: the next pass of the loop, or the
\* raise after the loop when range(3) is used up
SubmitResume(s, task, resp) ==
    IF task.attempt + 1 < MaxAttempts
    THEN Attempt(s, task.t, task.detached, task.userEmail, task.attempt + 1,
                 task.timeouts, task.outcomes, task.waits, resp)
    ELSE [store |-> [s EXCEPT ![task.t] = FailureDict(@)],
          emails |-> FailureEmails(s[task.t], task.t), call |-> << >>,
          kind |-> "error", detail |-> <<"Stannp submission failed after all retry attempts">>,
          printed |-> 0, attempt |-> task.attempt + 1,
          timeouts |-> task.timeouts, outcomes |-> task.outcomes,
          waits |-> task.waits]

\* What the caller of submit_to_stannp answers: the endpoint and
\* manual_process_payment raise HTTPException(500) on any exception,
\* process_free_postcard returns success False with HTTP 200, a task created by
\* the webhook answers nobody.
Response(caller, kind) ==
    IF kind = "sleep" THEN [code |-> 0, success |-> FALSE]
    ELSE IF caller \in {"webhook", "checkout"} THEN [code |-> 0, success |-> kind = "ok"]
    ELSE IF caller = "free" THEN [code |-> 200, success |-> kind = "ok"]
    ELSE IF kind = "ok" THEN [code |-> 200, success |-> TRUE]
    ELSE [code |-> 500, success |-> FALSE]

\* the slot a coroutine takes when it is created or suspends
IdleSlots == {k \in TaskIds : tasks[k].pc = "idle"}
FreeSlot == IF IdleSlots = {} THEN 0 ELSE CHOOSE k \in IdleSlots : \A j \in IdleSlots : k <= j

\* The state after a run of submit_to_stannp that produced res, for the
\* coroutine in slot tk (the slot it would suspend in); tks are the other
\* coroutines at that moment.
AfterSubmit(op, tk, caller, t, tks, res) ==
    /\ res.kind = "sleep" => tk # 0
    /\ tasks' = IF tk = 0 THEN tks
                ELSE [tks EXCEPT ![tk] =
                         IF res.kind = "sleep"
                         THEN [pc |-> "sleeping", t |-> t, caller |-> caller,
                               attempt |-> res.attempt, detached |-> tks[tk].detached,
                               userEmail |-> tks[tk].userEmail,
                               timeouts |-> res.timeouts, outcomes |-> res.outcomes,
                               waits |-> res.waits]
                         ELSE Idle]
    /\ transaction_store' = res.store
    /\ prints' = [prints EXCEPT ![t] = @ + res.printed]
    /\ last' = [op |-> op, t |-> t, caller |-> caller, kind |-> res.kind,
                response |-> Response(caller, res.kind), detail |-> res.detail,
                emails |-> res.emails, call |-> res.call,
                timeouts |-> res.timeouts, outcomes |-> res.outcomes,
                waits |-> res.waits]

-----------------------------------------------------------------------------
(* Coupon tables *)

StoredCodes == {MintedCode}
CodeInputs == {"XLWelcomeNov", "XLWELCOMENOV", "xlwelcomenov"}

\* str.upper() on the codes of the model
Upper(c) == IF c \in CodeInputs THEN "XLWELCOMENOV" ELSE c

\* max_redemptions=500 of the minted code and of its campaign
CouponMaxRedemptions == 500
CampaignDiscountPercent == 100
MintedStripeCouponId == "xlwelcome-november-2026"

MintedExpiry == 1

MintedRow == [present |-> TRUE, times_redeemed |-> 0, max_redemptions |-> CouponMaxRedemptions,
              is_active |-> TRUE, stripe_coupon_id |-> MintedStripeCouponId,
              expires_at |-> MintedExpiry]

\* db.query(CouponCode).filter(CouponCode.code == code, CouponCode.is_active == True).first()
\* the stored codes that match, compared as the database compares strings
ActiveCode(code) ==
    {c \in StoredCodes : c = code /\ coupon_codes[c].present /\ coupon_codes[c].is_active}

\* db.query(CouponCode).filter(CouponCode.stripe_coupon_id == coupon_id).first()
CodeByStripeCoupon(coupon_id) ==
    {c \in StoredCodes : coupon_codes[c].present /\ coupon_codes[c].stripe_coupon_id = coupon_id}

\* db.add(redemption); coupon.times_redeemed += 1; db.commit() for the matching
\* rows found (at most one: code is unique), nothing when none matches
Redeem(found, t, pi) ==
    IF found = {}
    THEN /\ UNCHANGED <<coupon_codes, coupon_redemptions>>
    ELSE LET c == CHOOSE x \in found : TRUE
         IN  /\ coupon_codes' = [coupon_codes EXCEPT ![c].times_redeemed = @ + 1]
             /\ coupon_redemptions' = Append(coupon_redemptions,
                    [code |-> c, transaction_id |-> t, stripe_payment_intent_id |-> pi])

\* the run may record one more redemption
RedeemRoom(found) == found = {} \/ Len(coupon_redemptions) < MaxTimesRedeemed

\* payment_intent.metadata.get('promo_code') of the intents of the model
PromoOfIntent(pi) == IF pi = "pi_promo" THEN MintedCode ELSE ""

Obs(op, t, code, success, detail) ==
    [op |-> op, t |-> t, caller |-> op, kind |-> IF success THEN "ok" ELSE "error",
     response |-> [code |-> code, success |-> success], detail |-> detail,
     emails |-> << >>, call |-> << >>, timeouts |-> << >>, outcomes |-> << >>, waits |-> << >>]

-----------------------------------------------------------------------------
(* The handlers *)

\* POST /generate-complete-postcard.  ok = FALSE: the compositing raised and the
\* handler answered 500 before it stored anything.
Generate(t, userEmail, ok) ==
    /\ UNCHANGED <<prints, coupon_codes, coupon_redemptions, elsewhere>>
    /\ IF ok
       THEN /\ transaction_store' = [transaction_store EXCEPT
                                        ![t] = GeneratedDict(@, userEmail)]
            /\ tasks' = Detach(tasks, t, transaction_store[t])
            /\ last' = Obs("generate", t, 200, TRUE, << >>)
       ELSE /\ UNCHANGED <<transaction_store, tasks>>
            /\ last' = Obs("generate", t, 500, FALSE, <<"generation failed">>)

\* POST /payment-confirmed.  stripe_ok = FALSE: PaymentIntent.retrieve raised,
\* which the handler logs and passes over.
PaymentConfirmed(t, pi, userEmail, stripe_ok) ==
    LET promo_code == IF stripe_ok THEN PromoOfIntent(pi) ELSE ""
        found == IF Truthy(promo_code) THEN ActiveCode(promo_code) ELSE {}
    IN  /\ RedeemRoom(found)
        /\ Redeem(found, t, pi)
        /\ UNCHANGED <<tasks, prints, elsewhere>>
        /\ IF transaction_store[t] # NoTxn
           THEN /\ transaction_store' = [transaction_store EXCEPT ![t] =
                       [MarkPaid(@, pi) EXCEPT
                           !.userEmail = ConfirmedEmail(@, userEmail)]]
                /\ last' = Obs("payment_confirmed", t, 200, TRUE, << >>)
           ELSE /\ UNCHANGED transaction_store
                /\ last' = Obs("payment_confirmed", t, 500, FALSE,
                               <<"404", "Transaction not found">>)

\* the vendor may answer 200 once more
PrintRoom(t, resp) == resp.status_code = "200" => prints[t] < MaxPrints

\* POST /submit-to-stannp
SubmitToStannp(t, resp) ==
    /\ PrintRoom(t, resp)
    /\ UNCHANGED <<coupon_codes, coupon_redemptions, elsewhere>>
    /\ AfterSubmit("submit", FreeSlot, "http", t, tasks,
                   SubmitEntry(transaction_store, t, resp))

\* the coroutine the webhook started with asyncio.create_task begins to run
StartTask(tk, resp) ==
    /\ tasks[tk].pc = "new"
    /\ PrintRoom(tasks[tk].t, resp)
    /\ UNCHANGED <<coupon_codes, coupon_redemptions, elsewhere>>
    /\ AfterSubmit("submit", tk, tasks[tk].caller, tasks[tk].t, tasks,
                   SubmitEntry(transaction_store, tasks[tk].t, resp))

\* a coroutine wakes from the asyncio.sleep of the retry loop
ResumeTask(tk, resp) ==
    /\ tasks[tk].pc = "sleeping"
    /\ PrintRoom(tasks[tk].t, resp)
    /\ UNCHANGED <<coupon_codes, coupon_redemptions, elsewhere>>
    /\ AfterSubmit("resume", tk, tasks[tk].caller, tasks[tk].t, tasks,
                   SubmitResume(transaction_store, tasks[tk], resp))

\* POST /stripe-webhook with a verified payment_intent.succeeded event whose
\* metadata names transaction t; coupon_id is the coupon of its first charge's
\* discount ("" when there is none)
StripeWebhook(t, pi, coupon_id) ==
    LET found == IF coupon_id # "" THEN CodeByStripeCoupon(coupon_id) ELSE {}
    IN  /\ RedeemRoom(found)
        /\ Redeem(found, t, pi)
        /\ UNCHANGED <<prints, elsewhere>>
        /\ last' = Obs("webhook", t, 200, TRUE, << >>)
        /\ IF transaction_store[t] # NoTxn
           THEN /\ FreeSlot # 0
                /\ transaction_store' = [transaction_store EXCEPT ![t] = MarkPaid(@, pi)]
                /\ tasks' = [tasks EXCEPT ![FreeSlot] =
                       [Idle EXCEPT !.pc = "new", !.t = t, !.caller = "webhook"]]
           ELSE UNCHANGED <<transaction_store, tasks>>

\* POST /manual-process-payment
ManualProcessPayment(t, pi, resp) ==
    /\ UNCHANGED <<coupon_codes, coupon_redemptions, elsewhere>>
    /\ IF transaction_store[t] = NoTxn
       THEN /\ UNCHANGED <<transaction_store, tasks, prints>>
            /\ last' = Obs("manual", t, 500, FALSE, <<"404", "Transaction not found">>)
       ELSE /\ PrintRoom(t, resp)
            /\ AfterSubmit("manual", FreeSlot, "manual", t, tasks,
                   SubmitEntry([transaction_store EXCEPT ![t] = MarkPaid(@, pi)], t, resp))

\* what stripe.PromotionCode.list and stripe.Coupon.retrieve may tell
StripeAnswers == { [valid |-> FALSE, percent_off |-> 0],
                   [valid |-> TRUE, percent_off |-> 100],
                   [valid |-> TRUE, percent_off |-> 50] }

\* POST /validate-promo-code
validate_promo_code(code, stripe) ==
    LET c == Upper(code)
        found == ActiveCode(c)
        invalid == [valid |-> FALSE, discount_percent |-> 0, remaining_uses |-> 0]
    IN  IF c = "" THEN invalid
        ELSE IF found = {}
        THEN IF stripe.valid
             THEN [valid |-> TRUE, discount_percent |-> stripe.percent_off,
                   remaining_uses |-> CouponMaxRedemptions]
             ELSE invalid
        ELSE LET db_coupon == coupon_codes[CHOOSE x \in found : TRUE]
             IN  IF now > db_coupon.expires_at THEN invalid
                 ELSE IF db_coupon.times_redeemed >= db_coupon.max_redemptions THEN invalid
                 ELSE [valid |-> TRUE, discount_percent |-> CampaignDiscountPercent,
                       remaining_uses |-> db_coupon.max_redemptions - db_coupon.times_redeemed]

\* transaction_store[id]["userEmail"] = request.userEmail or "" (main.py 2573)
FreeEmail(existing_email, userEmail) == IF Truthy(userEmail) THEN userEmail ELSE ""

\* POST /process-free-postcard.  gen_ok = FALSE: generate_complete_postcard raised.
ProcessFreePostcard(t, userEmail, code, stripe, gen_ok, resp) ==
    LET v == validate_promo_code(code, stripe)
    IN  /\ UNCHANGED elsewhere
        /\ IF ~v.valid \/ v.discount_percent # 100 \/ ~gen_ok
           THEN /\ UNCHANGED <<transaction_store, tasks, prints, coupon_codes,
                               coupon_redemptions>>
                /\ last' = Obs("free", t, 200, FALSE, <<"not processed">>)
           ELSE LET d1 == GeneratedDict(transaction_store[t], userEmail)
                    d2 == [MarkPaid(d1, "FREE_PROMO") EXCEPT
                              !.userEmail = FreeEmail(@, userEmail)]
                    found == ActiveCode(Upper(code))
                IN  /\ PrintRoom(t, resp)
                    /\ RedeemRoom(found)
                    /\ Redeem(found, t, "FREE_PROMO")
                    /\ AfterSubmit("free", FreeSlot, "free", t,
                           Detach(tasks, t, transaction_store[t]),
                           SubmitEntry([transaction_store EXCEPT ![t] = d2], t, resp))

-----------------------------------------------------------------------------

\* The service as it starts when the coupon creation of startup_event failed
\* (the failure is logged and passed over): no code is stored.
-----------------------------------------------------------------------------
(* The monthly coupon job, create_monthly_coupon (main.py 632-742).  It runs at
   startup, from the daily Timer thread and from POST /create-monthly-coupon,
   and in every instance of the service: runs interleave at their queries,
   commits and Stripe calls. *)

MaxJobs == 2
MaxRuns == 2
JobIds == 1..MaxJobs

MonthlyCampaignName == "Monthly Welcome Campaign"
MonthlyCampaignType == "monthly_welcome"

\* no call of the compositing engine has been observed
NoCall == [fn |-> "none"]

NoJob == [pc |-> "idle", runs |-> 0, campaign_id |-> 0, result |-> NoKey,
          success |-> FALSE, writes |-> << >>]

\* the row of the month's code as create_monthly_coupon stores it (710-717)
MonthlyCodeRow(campaign_id) ==
    [code |-> MintedCode, campaign_id |-> campaign_id,
     stripe_coupon_id |-> MintedStripeCouponId]

MonthlyCampaignRow(id) ==
    [id |-> id, campaign_name |-> MonthlyCampaignName, campaign_type |-> MonthlyCampaignType]

\* the month's code has not been minted yet
NothingMinted ==
    /\ coupon_campaigns = << >>
    /\ coupon_code_rows = << >>
    /\ stripe_objects = {}
    /\ jobs = [j \in JobIds |-> NoJob]

\* an earlier run has minted the month's code
MonthMinted ==
    /\ coupon_campaigns = <<MonthlyCampaignRow(1)>>
    /\ coupon_code_rows = <<MonthlyCodeRow(1)>>
    /\ stripe_objects = {"coupon", "promotion_code"}
    /\ jobs = [j \in JobIds |-> NoJob]

\* the same commit on a column without the constraint
NoUniqueConstraint(keys, key) == FALSE

\* unique=True of a column: a commit that would store key a second time raises
UniqueViolation(keys, key) == key \in keys

CodeRowsOf(code) == {i \in DOMAIN coupon_code_rows : coupon_code_rows[i].code = code}

MonthlyCampaigns ==
    {i \in DOMAIN coupon_campaigns : coupon_campaigns[i].campaign_type = MonthlyCampaignType}

\* the except branch (732-738): rollback, success False
JobFails(j, error) ==
    [jobs EXCEPT ![j].pc = "done", ![j].result = error, ![j].success = FALSE]

\* a run begins and queries the code (643-651)
BeginRun(j) ==
    /\ jobs[j].pc \in {"idle", "done"}
    /\ jobs[j].runs < MaxRuns
    /\ jobs' = [jobs EXCEPT ![j] =
           IF CodeRowsOf(MintedCode) # {}
           THEN [NoJob EXCEPT !.pc = "done", !.runs = jobs[j].runs + 1,
                              !.result = "exists", !.success = TRUE]
           ELSE [NoJob EXCEPT !.pc = "campaign", !.runs = jobs[j].runs + 1]]
    /\ UNCHANGED <<transaction_store, tasks, prints, coupon_codes, coupon_redemptions, now,
                   payment_sessions, coupon_campaigns, coupon_code_rows, stripe_objects,
                   engine_call, last>>

\* the query of the monthly welcome campaign (654-656)
FindCampaign(j) ==
    /\ jobs[j].pc = "campaign"
    /\ jobs' = [jobs EXCEPT ![j] =
           IF MonthlyCampaigns # {}
           THEN [@ EXCEPT !.pc = "stripe_coupon",
                          !.campaign_id =
                              coupon_campaigns[CHOOSE i \in MonthlyCampaigns :
                                  \A k \in MonthlyCampaigns : i <= k].id]
           ELSE [@ EXCEPT !.pc = "add_campaign"]]
    /\ UNCHANGED <<transaction_store, tasks, prints, coupon_codes, coupon_redemptions, now,
                   payment_sessions, coupon_campaigns, coupon_code_rows, stripe_objects,
                   engine_call, last>>

\* db.add(campaign); db.commit() (658-668)
CommitCampaign(j) ==
    /\ jobs[j].pc = "add_campaign"
    /\ IF UniqueViolation({coupon_campaigns[i].campaign_name : i \in DOMAIN coupon_campaigns},
                          MonthlyCampaignName)
       THEN /\ jobs' = JobFails(j, "duplicate campaign")
            /\ UNCHANGED coupon_campaigns
       ELSE /\ coupon_campaigns' =
                   Append(coupon_campaigns, MonthlyCampaignRow(Len(coupon_campaigns) + 1))
            /\ jobs' = [jobs EXCEPT ![j].pc = "stripe_coupon",
                                    ![j].campaign_id = Len(coupon_campaigns) + 1,
                                    ![j].writes = Append(@, "campaign")]
    /\ UNCHANGED <<transaction_store, tasks, prints, coupon_codes, coupon_redemptions, now,
                   payment_sessions, coupon_code_rows, stripe_objects, engine_call, last>>

\* the job after a create call of Stripe with the fallback on "already exists"
\* (671-705); ok = FALSE: Stripe raised something else
StripeCreate(j, object, next_pc, ok) ==
    IF ~ok
    THEN JobFails(j, "stripe error")
    ELSE [jobs EXCEPT ![j].pc = next_pc,
                      ![j].writes = IF object \in stripe_objects
                                    THEN @ ELSE Append(@, object)]

\* stripe.Coupon.create (671-686)
StripeCoupon(j, ok) ==
    /\ jobs[j].pc = "stripe_coupon"
    /\ jobs' = StripeCreate(j, "coupon", "stripe_promo", ok)
    /\ stripe_objects' = IF ok THEN stripe_objects \cup {"coupon"} ELSE stripe_objects
    /\ UNCHANGED <<transaction_store, tasks, prints, coupon_codes, coupon_redemptions, now,
                   payment_sessions, coupon_campaigns, coupon_code_rows, engine_call, last>>

\* stripe.PromotionCode.create (689-706)
StripePromotionCode(j, ok) ==
    /\ jobs[j].pc = "stripe_promo"
    /\ jobs' = StripeCreate(j, "promotion_code", "add_code", ok)
    /\ stripe_objects' = IF ok THEN stripe_objects \cup {"promotion_code"} ELSE stripe_objects
    /\ UNCHANGED <<transaction_store, tasks, prints, coupon_codes, coupon_redemptions, now,
                   payment_sessions, coupon_campaigns, coupon_code_rows, engine_call, last>>

\* db.add(db_coupon); db.commit() and the answer (709-730)
CommitCode(j) ==
    /\ jobs[j].pc = "add_code"
    /\ IF UniqueViolation({coupon_code_rows[i].code : i \in DOMAIN coupon_code_rows},
                          MintedCode)
       THEN /\ jobs' = JobFails(j, "duplicate code")
            /\ UNCHANGED <<coupon_code_rows, coupon_codes>>
       ELSE /\ coupon_code_rows' =
                   Append(coupon_code_rows, MonthlyCodeRow(jobs[j].campaign_id))
            /\ coupon_codes' = [coupon_codes EXCEPT ![MintedCode] = MintedRow]
            /\ jobs' = [jobs EXCEPT ![j].pc = "done", ![j].result = "created",
                                    ![j].success = TRUE,
                                    ![j].writes = Append(@, "code")]
    /\ UNCHANGED <<transaction_store, tasks, prints, coupon_redemptions, now,
                   payment_sessions, coupon_campaigns, stripe_objects, engine_call, last>>

NextMonthly ==
    \/ \E j \in JobIds : BeginRun(j)
    \/ \E j \in JobIds : FindCampaign(j)
    \/ \E j \in JobIds : CommitCampaign(j)
    \/ \E j \in JobIds, ok \in BOOLEAN : StripeCoupon(j, ok)
    \/ \E j \in JobIds, ok \in BOOLEAN : StripePromotionCode(j, ok)
    \/ \E j \in JobIds : CommitCode(j)

Init ==
    /\ transaction_store = [t \in TxnIds |-> NoTxn]
    /\ tasks = [k \in TaskIds |-> Idle]
    /\ prints = [t \in TxnIds |-> 0]
    /\ coupon_codes = [c \in StoredCodes |-> [MintedRow EXCEPT !.present = FALSE]]
    /\ coupon_redemptions = << >>
    /\ now = 0
    /\ payment_sessions = [t \in TxnIds |-> NoSession]
    /\ NothingMinted
    /\ engine_call = NoCall
    /\ last = [op |-> "init", t |-> NoKey, caller |-> NoKey, kind |-> "ok",
               response |-> [code |-> 0, success |-> TRUE], detail |-> << >>,
               emails |-> << >>, call |-> << >>, timeouts |-> << >>, outcomes |-> << >>,
               waits |-> << >>]

\* The requests to /process-free-postcard.  A request the handler refuses (code
\* not worth 100 percent, or generation failed) is refused before its e-mail is
\* stored and before the vendor is called, so one e-mail and one vendor answer
\* stand for all.
FreeRequests(codes, responses) ==
    {q \in [userEmail : Emails, code : codes, stripe : StripeAnswers,
            gen_ok : BOOLEAN, resp : responses] :
        LET v == validate_promo_code(q.code, q.stripe)
        IN  ~v.valid \/ v.discount_percent # 100 \/ ~q.gen_ok
                => q.userEmail = "" /\ q.resp.id = "v1"}

OrderIntents == {"pi_1"}

Next ==
    \/ \E t \in TxnIds, e \in Emails, ok \in BOOLEAN : Generate(t, e, ok)
    \/ \E t \in TxnIds, pi \in OrderIntents, e \in Emails, ok \in BOOLEAN :
          PaymentConfirmed(t, pi, e, ok)
    \/ \E t \in TxnIds, r \in VendorResponses : SubmitToStannp(t, r)
    \/ \E k \in TaskIds, r \in VendorResponses : StartTask(k, r)
    \/ \E k \in TaskIds, r \in VendorResponses : ResumeTask(k, r)
    \/ \E t \in TxnIds, pi \in OrderIntents : StripeWebhook(t, pi, "")
    \/ \E t \in TxnIds, pi \in OrderIntents, r \in VendorResponses :
          ManualProcessPayment(t, pi, r)
    \/ \E t \in TxnIds, q \in FreeRequests({MintedCode}, VendorResponses) :
          ProcessFreePostcard(t, q.userEmail, q.code, q.stripe, q.gen_ok, q.resp)

Spec == Init /\ [][Next]_vars

-----------------------------------------------------------------------------
(* The service with the month's code stored, and a vendor that answers at once *)

\* startup_event created the code
InitPromo ==
    /\ transaction_store = [t \in TxnIds |-> NoTxn]
    /\ tasks = [k \in TaskIds |-> Idle]
    /\ prints = [t \in TxnIds |-> 0]
    /\ coupon_codes = [c \in StoredCodes |-> MintedRow]
    /\ coupon_redemptions = << >>
    /\ now = 0
    /\ payment_sessions = [t \in TxnIds |-> NoSession]
    /\ MonthMinted
    /\ engine_call = NoCall
    /\ last = [op |-> "init", t |-> NoKey, caller |-> NoKey, kind |-> "ok",
               response |-> [code |-> 0, success |-> TRUE], detail |-> << >>,
               emails |-> << >>, call |-> << >>, timeouts |-> << >>, outcomes |-> << >>,
               waits |-> << >>]

HttpResponses == {r \in VendorResponses : r.kind = "http"}

NextPromo ==
    \/ \E t \in TxnIds, e \in Emails, ok \in BOOLEAN : Generate(t, e, ok)
    \/ \E t \in TxnIds, pi \in PaymentIntentIds, e \in Emails, ok \in BOOLEAN :
          PaymentConfirmed(t, pi, e, ok)
    \/ \E t \in TxnIds, r \in HttpResponses : SubmitToStannp(t, r)
    \/ \E k \in TaskIds, r \in HttpResponses : StartTask(k, r)
    \/ \E t \in TxnIds, pi \in PaymentIntentIds, c \in {"", MintedStripeCouponId} :
          StripeWebhook(t, pi, c)
    \/ \E t \in TxnIds, q \in FreeRequests(CodeInputs, HttpResponses) :
          ProcessFreePostcard(t, q.userEmail, q.code, q.stripe, q.gen_ok, q.resp)

SpecPromo == InitPromo /\ [][NextPromo]_vars

\* The month's code with one use left: all but one of its max_redemptions have
\* been redeemed by earlier transactions, whose rows are not listed.
InitLastUse ==
    /\ transaction_store = [t \in TxnIds |-> NoTxn]
    /\ tasks = [k \in TaskIds |-> Idle]
    /\ prints = [t \in TxnIds |-> 0]
    /\ coupon_codes = [c \in StoredCodes |->
           [MintedRow EXCEPT !.times_redeemed = CouponMaxRedemptions - 1]]
    /\ coupon_redemptions = << >>
    /\ now = 0
    /\ payment_sessions = [t \in TxnIds |-> NoSession]
    /\ MonthMinted
    /\ engine_call = NoCall
    /\ last = [op |-> "init", t |-> NoKey, caller |-> NoKey, kind |-> "ok",
               response |-> [code |-> 0, success |-> TRUE], detail |-> << >>,
               emails |-> << >>, call |-> << >>, timeouts |-> << >>, outcomes |-> << >>,
               waits |-> << >>]

SpecLastUse == InitLastUse /\ [][NextPromo]_vars

\* datetime.utcnow() advances; MaxNow days are followed
MaxNow == 2

Tick ==
    /\ now < MaxNow
    /\ now' = now + 1
    /\ UNCHANGED <<transaction_store, tasks, prints, coupon_codes, coupon_redemptions,
                   payment_sessions, aside, last>>

\* POST /validate-promo-code as a request: the typed code and Stripe's answer for it
ValidatePromoCode(code, stripe) ==
    LET answer == validate_promo_code(code, stripe)
    IN  /\ last' = [Obs("validate", NoKey, 200, TRUE, <<code>>)
                       EXCEPT !.response = [code |-> 200, success |-> TRUE,
                                            valid |-> answer.valid,
                                            discount_percent |-> answer.discount_percent,
                                            remaining_uses |-> answer.remaining_uses]]
        /\ UNCHANGED <<transaction_store, tasks, prints, coupon_codes, coupon_redemptions,
                       elsewhere>>

NextExpiry ==
    \/ Tick
    \/ \E code \in CodeInputs \cup {"", "NOSUCH"}, stripe \in StripeAnswers :
          ValidatePromoCode(code, stripe)
    \/ \E t \in TxnIds, e \in Emails, ok \in BOOLEAN : Generate(t, e, ok)
    \/ \E t \in TxnIds, pi \in PaymentIntentIds, e \in Emails, ok \in BOOLEAN :
          PaymentConfirmed(t, pi, e, ok)

SpecExpiry == InitPromo /\ [][NextExpiry]_vars

SpecMonthly == Init /\ [][NextMonthly]_vars

-----------------------------------------------------------------------------
(* The compositing engine: TemplateEngine (main.py 21-417) and the front image
   of generate_complete_postcard (main.py 1268-1328). *)

MaxPhotos == 7

\* photo references: an http URL and a data URL
Photos == {"http://a", "data:b"}

PhotoLists == UNION {[1..n -> Photos] : n \in 0..MaxPhotos}

NamedTemplates ==
    {"single", "two_side_by_side", "three_photos", "four_quarters", "two_vertical",
     "five_collage", "six_grid", "three_horizontal", "three_bookmarks", "three_sideways"}

\* the template types a request may carry: the named ones and an unknown one
TemplateTypes == NamedTemplates \cup {"mosaic"}

\* a template that takes whatever it is given
apply_template_lenient(template_type, image_urls) ==
    IF Len(image_urls) < 1
    THEN [kind |-> "ValueError", used |-> << >>]
    ELSE [kind |-> "image", used |-> image_urls]

\* TemplateEngine.apply_template: the exception raised, or the references that
\* the layout loads, in the order it places them
apply_template(template_type, image_urls) ==
    LET raise == [kind |-> "ValueError", used |-> << >>]
        image(used) == [kind |-> "image", used |-> used]
        n == Len(image_urls)
    IN  CASE template_type = "single" ->
                IF n < 1 THEN raise ELSE image(<<image_urls[1]>>)
          [] template_type = "two_side_by_side" ->
                IF n < 2 THEN raise ELSE image(<<image_urls[1], image_urls[2]>>)
          [] template_type = "three_photos" ->
                IF n < 3 THEN raise
                ELSE image(<<image_urls[1], image_urls[2], image_urls[3]>>)
          [] template_type = "four_quarters" ->
                IF n < 4 THEN raise ELSE image(SubSeq(image_urls, 1, 4))
          [] template_type = "two_vertical" ->
                IF n < 2 THEN raise ELSE image(<<image_urls[1], image_urls[2]>>)
          [] template_type = "five_collage" ->
                IF n < 5 THEN raise
                ELSE image(SubSeq(image_urls, 1, 4) \o <<image_urls[5]>>)
          [] template_type = "six_grid" ->
                IF n < 6 THEN raise ELSE image(SubSeq(image_urls, 1, 6))
          [] template_type = "three_horizontal" ->
                IF n < 3 THEN raise
                ELSE image(<<image_urls[1], image_urls[2], image_urls[3]>>)
          [] template_type = "three_bookmarks" ->
                IF n < 3 THEN raise
                ELSE image(<<image_urls[1], image_urls[2], image_urls[3]>>)
          [] template_type = "three_sideways" ->
                IF n < 3 THEN raise
                ELSE image(<<image_urls[1], image_urls[2], image_urls[3]>>)
          [] OTHER ->
                IF n < 1 THEN [kind |-> "IndexError", used |-> << >>]
                ELSE image(<<image_urls[1]>>)

\* one call of apply_template on a fresh engine
ApplyTemplate ==
    /\ engine_call = NoCall
    /\ \E template_type \in TemplateTypes, image_urls \in PhotoLists :
          engine_call' = [fn |-> "apply_template", template_type |-> template_type,
                          image_urls |-> image_urls,
                          result |-> apply_template(template_type, image_urls)]
    /\ UNCHANGED <<transaction_store, tasks, prints, coupon_codes, coupon_redemptions, now,
                   payment_sessions, coupon_campaigns, coupon_code_rows, stripe_objects,
                   jobs, last>>

\* TemplateEngine.apply_template of utils/templateEngine.py (169-194): four
\* layouts, and ValueError for every other template type
utils_apply_template(template_type, image_urls) ==
    LET raise == [kind |-> "ValueError", used |-> << >>]
        image(used) == [kind |-> "image", used |-> used]
        n == Len(image_urls)
    IN  CASE template_type = "single" ->
                IF n < 1 THEN raise ELSE image(<<image_urls[1]>>)
          [] template_type = "two_side_by_side" ->
                IF n < 2 THEN raise ELSE image(<<image_urls[1], image_urls[2]>>)
          [] template_type = "three_photos" ->
                IF n < 3 THEN raise
                ELSE image(<<image_urls[1], image_urls[2], image_urls[3]>>)
          [] template_type = "four_quarters" ->
                IF n < 4 THEN raise ELSE image(SubSeq(image_urls, 1, 4))
          [] OTHER -> raise

\* one call of apply_template of utils/templateEngine.py
UtilsApplyTemplate ==
    /\ engine_call = NoCall
    /\ \E template_type \in TemplateTypes, image_urls \in PhotoLists :
          engine_call' = [fn |-> "utils.apply_template", template_type |-> template_type,
                          image_urls |-> image_urls,
                          result |-> utils_apply_template(template_type, image_urls)]
    /\ UNCHANGED <<transaction_store, tasks, prints, coupon_codes, coupon_redemptions, now,
                   payment_sessions, coupon_campaigns, coupon_code_rows, stripe_objects,
                   jobs, last>>

\* The canvases of TemplateEngine: REGULAR_SIZE and XL_SIZE of main.py 25-26
\* and XL_SIZE of app/services/template_engine.py 13, whose layout functions
\* compute as those of main.py do
CanvasSizes == {<<1800, 1200>>, <<2700, 1800>>, <<2754, 1872>>}

\* an image pasted at (x, y) after _resize_and_crop to (w, h)
Cell(x, y, w, h) == [x |-> x, y |-> y, w |-> w, h |-> h]

\* int(n * 0.4) and int(n * 0.7) in double precision, on the sizes of CanvasSizes
FortyPercent(n) == (n * 4) \div 10
SeventyPercent(n) == IF n = 1340 THEN 937 ELSE (n * 7) \div 10

apply_single_photo(width, height) ==
    [gap |-> 0, cells |-> <<Cell(0, 0, width, height)>>]

apply_two_side_by_side(width, height) ==
    LET gap == 20
        photo_width == (width - gap) \div 2
    IN  [gap |-> gap,
         cells |-> <<Cell(0, 0, photo_width, height),
                     Cell(photo_width + gap, 0, photo_width, height)>>]

apply_three_photos(width, height) ==
    LET gap == 20
        left_width == width \div 2 - gap \div 2
        right_width == width \div 2 - gap \div 2
        right_height == (height - gap) \div 2
    IN  [gap |-> gap,
         cells |-> <<Cell(0, 0, left_width, height),
                     Cell(left_width + gap, 0, right_width, right_height),
                     Cell(left_width + gap, right_height + gap, right_width, right_height)>>]

\* the four quarters of _apply_four_quarters and of _apply_five_collage
Quarters(width, height, gap) ==
    LET quarter_width == (width - gap) \div 2
        quarter_height == (height - gap) \div 2
    IN  <<Cell(0, 0, quarter_width, quarter_height),
          Cell(quarter_width + gap, 0, quarter_width, quarter_height),
          Cell(0, quarter_height + gap, quarter_width, quarter_height),
          Cell(quarter_width + gap, quarter_height + gap, quarter_width, quarter_height)>>

apply_four_quarters(width, height) ==
    [gap |-> 20, cells |-> Quarters(width, height, 20)]

apply_two_vertical(width, height) ==
    LET gap == 20
        photo_height == (height - gap) \div 2
    IN  [gap |-> gap,
         cells |-> <<Cell(0, 0, width, photo_height),
                     Cell(0, photo_height + gap, width, photo_height)>>]

\* the quarters, and over their middle the bordered centre image
apply_five_collage(width, height) ==
    LET gap == 20
        border_width == 8
        center_w == SeventyPercent((width - gap) \div 2) + border_width * 2
        center_h == SeventyPercent((height - gap) \div 2) + border_width * 2
    IN  [gap |-> gap, cells |-> Quarters(width, height, gap),
         overlay |-> Cell((width - center_w) \div 2, (height - center_h) \div 2,
                          center_w, center_h)]

apply_six_grid(width, height) ==
    LET gap == 15
        cell_width == (width - (2 * gap)) \div 3
        cell_height == (height - gap) \div 2
    IN  [gap |-> gap,
         cells |-> <<Cell(0, 0, cell_width, cell_height),
                     Cell(cell_width + gap, 0, cell_width, cell_height),
                     Cell((cell_width + gap) * 2, 0, cell_width, cell_height),
                     Cell(0, cell_height + gap, cell_width, cell_height),
                     Cell(cell_width + gap, cell_height + gap, cell_width, cell_height),
                     Cell((cell_width + gap) * 2, cell_height + gap,
                          cell_width, cell_height)>>]

apply_three_horizontal(width, height) ==
    LET gap == 15
        photo_width == (width - (2 * gap)) \div 3
    IN  [gap |-> gap,
         cells |-> <<Cell(0, 0, photo_width, height),
                     Cell(photo_width + gap, 0, photo_width, height),
                     Cell((photo_width + gap) * 2, 0, photo_width, height)>>]

apply_three_bookmarks(width, height) ==
    LET gap == 15
        photo_height == (height - (2 * gap)) \div 3
    IN  [gap |-> gap,
         cells |-> <<Cell(0, 0, width, photo_height),
                     Cell(0, photo_height + gap, width, photo_height),
                     Cell(0, (photo_height + gap) * 2, width, photo_height)>>]

apply_three_sideways(width, height) ==
    LET gap == 15
        top_height == FortyPercent(height)
        bottom_height == height - top_height - gap
        bottom_width == (width - gap) \div 2
    IN  [gap |-> gap,
         cells |-> <<Cell(0, 0, width, top_height),
                     Cell(0, top_height + gap, bottom_width, bottom_height),
                     Cell(bottom_width + gap, top_height + gap,
                          bottom_width, bottom_height)>>]

\* the layout function that apply_template calls for a template type
LayoutOf(template_type, width, height) ==
    CASE template_type = "single" -> apply_single_photo(width, height)
      [] template_type = "two_side_by_side" -> apply_two_side_by_side(width, height)
      [] template_type = "three_photos" -> apply_three_photos(width, height)
      [] template_type = "four_quarters" -> apply_four_quarters(width, height)
      [] template_type = "two_vertical" -> apply_two_vertical(width, height)
      [] template_type = "five_collage" -> apply_five_collage(width, height)
      [] template_type = "six_grid" -> apply_six_grid(width, height)
      [] template_type = "three_horizontal" -> apply_three_horizontal(width, height)
      [] template_type = "three_bookmarks" -> apply_three_bookmarks(width, height)
      [] template_type = "three_sideways" -> apply_three_sideways(width, height)
      [] OTHER -> apply_single_photo(width, height)

\* one canvas laid out by a layout function
ApplyLayout ==
    /\ engine_call = NoCall
    /\ \E template_type \in NamedTemplates, size \in CanvasSizes :
          engine_call' = [fn |-> "layout", template_type |-> template_type,
                          size |-> size,
                          layout |-> LayoutOf(template_type, size[1], size[2])]
    /\ UNCHANGED <<transaction_store, tasks, prints, coupon_codes, coupon_redemptions, now,
                   payment_sessions, coupon_campaigns, coupon_code_rows, stripe_objects,
                   jobs, last>>

NextTemplate ==
    \/ ApplyTemplate
    \/ UtilsApplyTemplate
    \/ ApplyLayout

SpecTemplate == Init /\ [][NextTemplate]_vars

\* str.startswith('http')
StartsWithHttp(uri) == uri = "http://a"

\* The front image of generate_complete_postcard (1268-1328): where front_url
\* comes from.  io_ok = FALSE: fetching the single image or the upload raised.
FrontImage(templateType, frontImageUris, frontImageUri, io_ok) ==
    LET fallback == IF Truthy(frontImageUri) /\ StartsWithHttp(frontImageUri)
                    THEN "frontImageUri" ELSE "copy of the back"
    IN  IF Truthy(templateType) /\ templateType # "single"
        THEN LET image_urls == IF Len(frontImageUris) > 0 THEN frontImageUris
                               ELSE IF Truthy(frontImageUri) THEN <<frontImageUri>>
                               ELSE << >>
             IN  IF image_urls = << >> THEN fallback
                 ELSE IF apply_template(templateType, image_urls).kind # "image"
                 THEN fallback
                 ELSE IF io_ok THEN "template" ELSE fallback
        ELSE LET front_image_url == IF Truthy(frontImageUri) THEN frontImageUri
                                    ELSE IF Len(frontImageUris) > 0 THEN frontImageUris[1]
                                    ELSE ""
             IN  IF ~Truthy(front_image_url) THEN fallback
                 ELSE IF io_ok THEN "single image" ELSE fallback

\* the photo lists of the requests followed: n references, alternating
RequestPhotoLists ==
    {[i \in 1..n |-> IF i % 2 = 1 THEN "http://a" ELSE "data:b"] : n \in 0..MaxPhotos}

\* POST /generate-complete-postcard with the photos of the request spelled out:
\* Generate, with the front image it stores named in the answer
GenerateWithPhotos(t, userEmail, templateType, frontImageUris, frontImageUri, io_ok) ==
    /\ UNCHANGED <<prints, coupon_codes, coupon_redemptions, elsewhere>>
    /\ transaction_store' = [transaction_store EXCEPT ![t] = GeneratedDict(@, userEmail)]
    /\ tasks' = Detach(tasks, t, transaction_store[t])
    /\ last' = Obs("generate", t, 200, TRUE,
                   <<templateType, frontImageUris,
                     FrontImage(templateType, frontImageUris, frontImageUri, io_ok)>>)

NextGenerate ==
    \E t \in TxnIds, e \in {"", "a@x.com"}, templateType \in TemplateTypes \cup {""},
       frontImageUris \in RequestPhotoLists, frontImageUri \in {""} \cup Photos,
       io_ok \in BOOLEAN :
        GenerateWithPhotos(t, e, templateType, frontImageUris, frontImageUri, io_ok)

SpecGenerate == Init /\ [][NextGenerate]_vars

\* Text is a sequence of characters.  MaxMessageLen characters of message are
\* followed, over two letters, the space and the newline.
MaxMessageLen == 6

Chars == {"a", "b", " ", "\n"}

Messages == UNION {[1..n -> Chars] : n \in 0..MaxMessageLen}

\* the characters that str.strip() and str.split() take for whitespace
IsSpace(c) == c \in {" ", "\n"}

\* str.strip()
StripText(s) ==
    LET kept == {i \in DOMAIN s : ~IsSpace(s[i])}
    IN  IF kept = {} THEN << >>
        ELSE SubSeq(s, CHOOSE i \in kept : \A k \in kept : i <= k,
                       CHOOSE i \in kept : \A k \in kept : i >= k)

\* str.split('\n')
RECURSIVE SplitNewline(_)
SplitNewline(s) ==
    LET breaks == {i \in DOMAIN s : s[i] = "\n"}
    IN  IF breaks = {} THEN <<s>>
        ELSE LET i == CHOOSE b \in breaks : \A k \in breaks : b <= k
             IN  <<SubSeq(s, 1, i - 1)>> \o SplitNewline(SubSeq(s, i + 1, Len(s)))

\* str.split(): the runs of characters that are not whitespace
RECURSIVE SplitWords(_)
SplitWords(s) ==
    LET kept == {i \in DOMAIN s : ~IsSpace(s[i])}
    IN  IF kept = {} THEN << >>
        ELSE LET first == CHOOSE i \in kept : \A k \in kept : i <= k
                 spaces == {i \in DOMAIN s : i > first /\ IsSpace(s[i])}
                 stop == IF spaces = {} THEN Len(s) + 1
                         ELSE CHOOSE i \in spaces : \A k \in spaces : i <= k
             IN  <<SubSeq(s, first, stop - 1)>> \o SplitWords(SubSeq(s, stop, Len(s)))

\* draw.textlength(text, font=font) of a font whose characters are one unit wide
TextLength(text) == Len(text)

\* a loop that gives every word a line of its own
OneWordPerLine(words, current_line, max_width) == [i \in DOMAIN words |-> words[i]]

\* the loop over the words of one user line (912-930): the lines it appends
RECURSIVE WrapWords(_, _, _)
WrapWords(words, current_line, max_width) ==
    IF words = << >>
    THEN IF current_line # << >> THEN <<current_line>> ELSE << >>
    ELSE LET word == Head(words)
             test_line == IF current_line # << >>
                          THEN StripText(current_line \o <<" ">> \o word) ELSE word
         IN  IF TextLength(test_line) <= max_width
             THEN WrapWords(Tail(words), test_line, max_width)
             ELSE (IF current_line # << >> THEN <<current_line>> ELSE << >>)
                  \o WrapWords(Tail(words), word, max_width)

\* the loop over the user lines (902-930)
RECURSIVE WrapUserLines(_, _)
WrapUserLines(user_lines, max_width) ==
    IF user_lines = << >> THEN << >>
    ELSE LET user_line == Head(user_lines)
         IN  (IF StripText(user_line) = << >>
              THEN << << >> >>
              ELSE WrapWords(SplitWords(user_line), << >>, max_width))
             \o WrapUserLines(Tail(user_lines), max_width)

\* wrapping that takes the message for one line
wrap_unsplit(message, max_width) == WrapWords(SplitWords(message), << >>, max_width)

process_message_with_line_breaks(message, max_width) ==
    WrapUserLines(SplitNewline(message), max_width)

\* one call of process_message_with_line_breaks
ProcessMessage ==
    /\ engine_call = NoCall
    /\ \E message \in Messages, max_width \in 0..MaxMessageLen :
          engine_call' = [fn |-> "process_message_with_line_breaks", message |-> message,
                          max_width |-> max_width,
                          result |-> process_message_with_line_breaks(message, max_width)]
    /\ UNCHANGED <<transaction_store, tasks, prints, coupon_codes, coupon_redemptions, now,
                   payment_sessions, coupon_campaigns, coupon_code_rows, stripe_objects,
                   jobs, last>>

NextWrap == ProcessMessage

SpecWrap == Init /\ [][NextWrap]_vars

\* Image sizes: every side up to MaxSide pixels, and the sides 100, 200 and 400.
\* On these sides the double-precision ratios, product and quotient of
\* _resize_and_crop compare and truncate as the exact fractions do.
MaxSide == 4

Sides == (1..MaxSide) \cup {100, 200, 400}

\* Image.resize of a crop: of an empty crop Pillow makes an error or an image
ResizeOutcomes(new_width, new_height, target_size) ==
    IF new_width > 0 /\ new_height > 0 THEN {target_size}
    ELSE {target_size, <<"ValueError">>}

\* TemplateEngine._resize_and_crop on an image of size <<width, height>>: the
\* box handed to image.crop, (left, upper, right, lower)
crop_box(width, height, target_width, target_height) ==
    IF width * target_height > target_width * height
    THEN LET new_height == height
             new_width == (new_height * target_width) \div target_height
             left == (width - new_width) \div 2
         IN  <<left, 0, left + new_width, new_height>>
    ELSE LET new_width == width
             new_height == (new_width * target_height) \div target_width
             top == (height - new_height) \div 2
         IN  <<0, top, new_width, top + new_height>>

\* one call of _resize_and_crop
ResizeAndCrop ==
    /\ engine_call = NoCall
    /\ \E width \in Sides, height \in Sides, target_width \in Sides, target_height \in Sides :
          LET box == crop_box(width, height, target_width, target_height)
          IN  \E result \in ResizeOutcomes(box[3] - box[1], box[4] - box[2],
                                           <<target_width, target_height>>) :
                 engine_call' = [fn |-> "_resize_and_crop", size |-> <<width, height>>,
                                 target_size |-> <<target_width, target_height>>,
                                 box |-> box, result |-> result]
    /\ UNCHANGED <<transaction_store, tasks, prints, coupon_codes, coupon_redemptions, now,
                   payment_sessions, coupon_campaigns, coupon_code_rows, stripe_objects,
                   jobs, last>>

NextCrop == ResizeAndCrop

SpecCrop == Init /\ [][NextCrop]_vars

-----------------------------------------------------------------------------
(* The payload of the vendor's create-postcard call and the canvases of an
   order: main.py 1060-1064, 24-30, 1296-1303, 1557-1580 and
   app/services/postcard_service.py 12-143, 185-284. *)

\* the values of the variable ENVIRONMENT; NoKey: the variable is not set
Environments == {NoKey, "production", "PRODUCTION", "development", "staging"}

\* os.getenv("ENVIRONMENT", "development").lower()
ConfiguredEnvironment(env) ==
    IF env = NoKey THEN "development"
    ELSE IF env = "PRODUCTION" THEN "production" ELSE env

\* the values of postcardSize, a free string of the request
PostcardSizes == {"xl", "regular", "6x9", "4x6", "large", ""}

\* recipient names, as the words of recipientInfo.to
RecipientNames == {<< >>, <<"Ann">>, <<"Ann", "Lee">>}

\* stannp_payload of submit_to_stannp_api (main.py 1557-1580)
stannp_payload(env, postcardSize, to, addressLine2) ==
    LET is_test_mode == ConfiguredEnvironment(env) # "production"
    IN  [test |-> IF is_test_mode THEN "true" ELSE "false",
         size |-> IF postcardSize = "xl" THEN "6x9" ELSE "4x6",
         firstname |-> IF to # << >> THEN to[1] ELSE "Recipient",
         lastname |-> IF Len(to) > 1 THEN Tail(to) ELSE << >>,
         address2 |-> IF addressLine2 # "" THEN addressLine2 ELSE NoKey,
         clearzone |-> "true"]

\* postcard_size of the service layer (postcard_service.py 69-75, 209-213)
ServiceSize(postcard_size) ==
    IF postcard_size = "6x9" \/ postcard_size = "xl" THEN "6x9" ELSE "4x6"

\* stannp_data of submit_to_stannp_with_transaction_data (postcard_service.py 44-86)
stannp_data(env, postcard_size, name_parts, address_line2) ==
    [test |-> "true",
     size |-> ServiceSize(postcard_size),
     firstname |-> IF Len(name_parts) >= 1 THEN name_parts[1] ELSE NoKey,
     lastname |-> IF Len(name_parts) >= 2 THEN Tail(name_parts) ELSE << >>,
     address2 |-> IF address_line2 # "" THEN address_line2 ELSE NoKey,
     clearzone |-> "true"]

\* one payload built by submit_to_stannp_api
SubmitToStannpApi ==
    /\ engine_call = NoCall
    /\ \E env \in Environments, postcardSize \in PostcardSizes, to \in RecipientNames,
          addressLine2 \in {"", "Apt 2"} :
          engine_call' = [fn |-> "submit_to_stannp_api", environment |-> env,
                          postcardSize |-> postcardSize,
                          payload |-> stannp_payload(env, postcardSize, to, addressLine2)]
    /\ UNCHANGED <<transaction_store, tasks, prints, coupon_codes, coupon_redemptions, now,
                   payment_sessions, coupon_campaigns, coupon_code_rows, stripe_objects,
                   jobs, last>>

\* one payload built by submit_to_stannp_with_transaction_data
SubmitWithTransactionData ==
    /\ engine_call = NoCall
    /\ \E env \in Environments, postcard_size \in PostcardSizes, name_parts \in RecipientNames,
          address_line2 \in {"", "Apt 2"} :
          engine_call' = [fn |-> "submit_to_stannp_with_transaction_data",
                          environment |-> env, postcardSize |-> postcard_size,
                          payload |-> stannp_data(env, postcard_size, name_parts,
                                                  address_line2)]
    /\ UNCHANGED <<transaction_store, tasks, prints, coupon_codes, coupon_redemptions, now,
                   payment_sessions, coupon_campaigns, coupon_code_rows, stripe_objects,
                   jobs, last>>

REGULAR_SIZE == <<1800, 1200>>
XL_SIZE == <<2700, 1800>>

\* W, H of the back image (main.py 1060-1064)
BackCanvas(postcardSize) ==
    IF postcardSize = "regular" THEN <<1800, 1200>> ELSE <<2754, 1872>>

\* TemplateEngine(postcard_size).size (main.py 28-30)
TemplateEngineSize(postcard_size) ==
    IF postcard_size = "xl" THEN XL_SIZE ELSE REGULAR_SIZE

\* The size of the front image that generate_complete_postcard composes
\* (main.py 1270-1328): front is the outcome of FrontImage
FrontCanvas(postcardSize, front) ==
    CASE front = "template" -> TemplateEngineSize(postcardSize)
      [] front = "single image" ->
            IF postcardSize = "xl" THEN <<2700, 1800>> ELSE <<1800, 1200>>
      [] front = "copy of the back" -> BackCanvas(postcardSize)

\* the faces of one order and the size its vendor payload carries
OrderSizes ==
    /\ engine_call = NoCall
    /\ \E postcardSize \in PostcardSizes,
          front \in {"template", "single image", "copy of the back"} :
          engine_call' = [fn |-> "order_sizes", postcardSize |-> postcardSize,
                          front_kind |-> front,
                          back |-> BackCanvas(postcardSize),
                          front |-> FrontCanvas(postcardSize, front),
                          vendor_size |->
                              stannp_payload(NoKey, postcardSize, << >>, "").size]
    /\ UNCHANGED <<transaction_store, tasks, prints, coupon_codes, coupon_redemptions, now,
                   payment_sessions, coupon_campaigns, coupon_code_rows, stripe_objects,
                   jobs, last>>

NextVendor ==
    \/ SubmitToStannpApi
    \/ SubmitWithTransactionData
    \/ OrderSizes

SpecVendor == Init /\ [][NextVendor]_vars

\* ---------------------------------------------------------------------------
\* The name of next month's code
\* ---------------------------------------------------------------------------

\* the years from which datetime.now() is drawn: a leap year and a common one
Years == {2024, 2025}

\* calendar.monthrange(year, month)[1]
monthrange(year, month) ==
    CASE month \in {4, 6, 9, 11} -> 30
      [] month = 2 ->
            IF (year % 4 = 0 /\ year % 100 # 0) \/ year % 400 = 0 THEN 29 ELSE 28
      [] OTHER -> 31

\* a calendar date, as datetime holds it
Date(year, month, day) == [year |-> year, month |-> month, day |-> day]

Dates ==
    {dt \in {Date(y, m, d) : y \in Years, m \in 1..12, d \in 1..31} :
        dt.day <= monthrange(dt.year, dt.month)}

\* a day count past the end of its month carried into the following months
RECURSIVE Carry(_, _, _)
Carry(year, month, day) ==
    IF day <= monthrange(year, month) THEN Date(year, month, day)
    ELSE IF month = 12 THEN Carry(year + 1, 1, day - monthrange(year, month))
    ELSE Carry(year, month + 1, day - monthrange(year, month))

\* datetime + timedelta(days=days)
timedelta(date, days) == Carry(date.year, date.month, date.day + days)

\* calendar.month_abbr and calendar.month_name
month_abbr ==
    <<"Jan", "Feb", "Mar", "Apr", "May", "Jun", "Jul", "Aug", "Sep", "Oct", "Nov", "Dec">>
month_name ==
    <<"January", "February", "March", "April", "May", "June", "July", "August",
      "September", "October", "November", "December">>

get_next_month_coupon_code(today) ==
    LET next_month == timedelta(today, 32)
    IN  "XLWelcome" \o month_abbr[next_month.month]

get_next_month_details(today) ==
    LET next_month == [timedelta(today, 32) EXCEPT !.day = 1]
        last_day == monthrange(next_month.year, next_month.month)
        expiry_date == [next_month EXCEPT !.day = last_day]
    IN  [month_name |-> month_name[next_month.month],
         year |-> next_month.year,
         expiry_date |-> expiry_date,
         coupon_code |-> get_next_month_coupon_code(today)]

\* both functions called on one day
NextMonth ==
    /\ engine_call = NoCall
    /\ \E today \in Dates :
          engine_call' = [fn |-> "next_month", today |-> today,
                          coupon_code |-> get_next_month_coupon_code(today),
                          details |-> get_next_month_details(today)]
    /\ UNCHANGED <<transaction_store, tasks, prints, coupon_codes, coupon_redemptions, now,
                   payment_sessions, coupon_campaigns, coupon_code_rows, stripe_objects,
                   jobs, last>>

NextCalendar == NextMonth

SpecCalendar == Init /\ [][NextCalendar]_vars

-----------------------------------------------------------------------------
(* The hosted checkout flow: create_payment_session, the
   checkout.session.completed event and process_paid_postcard *)

\* POST /create-payment-session.  The id is a fresh uuid4.  The entry is stored
\* before the checkout session is asked of Stripe; ok = FALSE: Stripe raised.
CreatePaymentSession(t, userEmail, ok) ==
    /\ payment_sessions[t] = NoSession
    /\ transaction_store[t] = NoTxn
    /\ payment_sessions' = [payment_sessions EXCEPT ![t] =
           [status |-> "pending_payment", userEmail |-> userEmail,
            stripe_session_id |-> IF ok THEN "cs_1" ELSE NoKey,
            stripe_payment_intent_id |-> NoKey]]
    /\ UNCHANGED <<transaction_store, tasks, prints, coupon_codes, coupon_redemptions, now, aside>>
    /\ last' = IF ok THEN Obs("create_payment_session", t, 200, TRUE, << >>)
               ELSE Obs("create_payment_session", t, 500, FALSE,
                        <<"Payment session creation failed">>)

\* POST /stripe-webhook with a verified checkout.session.completed event whose
\* metadata names transaction t: Stripe sends it for a checkout session it
\* created, or for an id this process holds no session of
CheckoutWebhook(t, pi) ==
    /\ payment_sessions[t] = NoSession \/ payment_sessions[t].stripe_session_id # NoKey
    /\ UNCHANGED <<transaction_store, prints, coupon_codes, coupon_redemptions, now, aside>>
    /\ last' = Obs("checkout_webhook", t, 200, TRUE, << >>)
    /\ IF payment_sessions[t] # NoSession
       THEN /\ FreeSlot # 0
            /\ payment_sessions' = [payment_sessions EXCEPT ![t] =
                   [@ EXCEPT !.status = "payment_completed",
                             !.stripe_payment_intent_id = pi]]
            /\ tasks' = [tasks EXCEPT ![FreeSlot] =
                   [Idle EXCEPT !.pc = "new_paid", !.t = t, !.caller = "checkout"]]
       ELSE UNCHANGED <<payment_sessions, tasks>>

\* the except branch of process_paid_postcard (main.py 2207-2217)
PaidFailureEmails(session_data) ==
    IF Truthy(session_data.userEmail)
    THEN <<send_email_notification(session_data.userEmail, <<"Postcard Processing Issue">>,
               <<"Your payment was successful but we encountered an issue processing your postcard.">>)>>
    ELSE << >>

\* The coroutine process_paid_postcard begins to run: it generates the card and
\* calls submit_to_stannp.  gen_ok = FALSE: generate_complete_postcard raised.
StartPaidTask(tk, gen_ok, resp) ==
    LET t == tasks[tk].t
        session_data == payment_sessions[t]
        ended(detail, emails) ==
            /\ tasks' = [tasks EXCEPT ![tk] = Idle]
            /\ UNCHANGED <<transaction_store, prints>>
            /\ last' = [Obs("paid", t, 0, FALSE, detail) EXCEPT
                           !.caller = "checkout", !.emails = emails]
    IN  /\ tasks[tk].pc = "new_paid"
        /\ UNCHANGED <<coupon_codes, coupon_redemptions, elsewhere>>
        /\ IF session_data = NoSession
           THEN ended(<<"session not found">>, << >>)
           ELSE IF ~gen_ok
           THEN ended(<<"generation failed">>, PaidFailureEmails(session_data))
           ELSE LET d == GeneratedDict(transaction_store[t], session_data.userEmail)
                    res == SubmitEntry([transaction_store EXCEPT ![t] = d], t, resp)
                IN  /\ PrintRoom(t, resp)
                    /\ AfterSubmit("paid", tk, "checkout", t,
                           Detach(tasks, t, transaction_store[t]),
                           [res EXCEPT !.emails =
                               IF res.kind = "error"
                               THEN @ \o PaidFailureEmails(session_data) ELSE @])

NextCheckout ==
    \/ \E t \in TxnIds, e \in {NoKey, "a@x.com"}, ok \in BOOLEAN :
          CreatePaymentSession(t, e, ok)
    \/ \E t \in TxnIds, pi \in OrderIntents : CheckoutWebhook(t, pi)
    \/ \E k \in TaskIds, ok \in BOOLEAN, r \in VendorResponses : StartPaidTask(k, ok, r)
    \/ \E t \in TxnIds, e \in {"", "a@x.com"} : Generate(t, e, TRUE)
    \/ \E t \in TxnIds, pi \in OrderIntents : StripeWebhook(t, pi, "")
    \/ \E t \in TxnIds, r \in VendorResponses : SubmitToStannp(t, r)
    \/ \E k \in TaskIds, r \in VendorResponses : StartTask(k, r)
    \/ \E k \in TaskIds, r \in VendorResponses : ResumeTask(k, r)

SpecCheckout == Init /\ [][NextCheckout]_vars

-----------------------------------------------------------------------------
(* The webhook endpoint as a request: the signature check of stripe_webhook
   (main.py 2036-2057, 2171-2174) before the event handlers, and the handler
   of the service layer (app/services/payment_service.py 115-123). *)

WebhookEventTypes == {"checkout.session.completed", "payment_intent.succeeded"}

\* POST /stripe-webhook of main.py.  secret: STRIPE_WEBHOOK_SECRET is set;
\* verifies: the signature header verifies against it.  The HTTPException(400)
\* of the signature check is raised inside the handler's try and leaves it as
\* HTTPException(500).
WebhookRequest(type, t, pi, coupon_id, secret, verifies) ==
    IF secret /\ ~verifies
    THEN /\ last' = Obs("webhook_refused", t, 500, FALSE, <<"Invalid signature">>)
         /\ UNCHANGED <<transaction_store, tasks, prints, coupon_codes, coupon_redemptions,
                        elsewhere>>
    ELSE IF type = "checkout.session.completed"
    THEN CheckoutWebhook(t, pi)
    ELSE StripeWebhook(t, pi, coupon_id)

\* POST /stripe-webhook of the service layer: handle_stripe_webhook
\* acknowledges whatever it is sent
HandleStripeWebhook(secret, verifies) ==
    /\ last' = Obs("handle_stripe_webhook", NoKey, 200, TRUE, <<"received">>)
    /\ UNCHANGED <<transaction_store, tasks, prints, coupon_codes, coupon_redemptions,
                   elsewhere>>

NextWebhook ==
    \/ \E t \in TxnIds, e \in {NoKey, "a@x.com"}, ok \in BOOLEAN :
          CreatePaymentSession(t, e, ok)
    \/ \E t \in TxnIds, e \in {"", "a@x.com"} : Generate(t, e, TRUE)
    \/ \E type \in WebhookEventTypes, t \in TxnIds, pi \in OrderIntents,
          coupon_id \in {"", MintedStripeCouponId}, secret \in BOOLEAN, verifies \in BOOLEAN :
          WebhookRequest(type, t, pi, coupon_id, secret, verifies)
    \/ \E secret \in BOOLEAN, verifies \in BOOLEAN : HandleStripeWebhook(secret, verifies)
    \/ \E k \in TaskIds, ok \in BOOLEAN, r \in HttpResponses : StartPaidTask(k, ok, r)
    \/ \E k \in TaskIds, r \in HttpResponses : StartTask(k, r)

SpecWebhook == InitPromo /\ [][NextWebhook]_vars

-----------------------------------------------------------------------------
(* The paid order path alone: generate, payment-confirmed or the webhook, and
   the submission with its retries *)

NextRetry ==
    \/ \E t \in TxnIds : Generate(t, "a@x.com", TRUE)
    \/ \E t \in TxnIds, pi \in OrderIntents : PaymentConfirmed(t, pi, "", TRUE)
    \/ \E t \in TxnIds, r \in VendorResponses : SubmitToStannp(t, r)
    \/ \E k \in TaskIds, r \in VendorResponses : StartTask(k, r)
    \/ \E k \in TaskIds, r \in VendorResponses : ResumeTask(k, r)
    \/ \E t \in TxnIds, pi \in OrderIntents : StripeWebhook(t, pi, "")

SpecRetry == Init /\ [][NextRetry]_vars

-----------------------------------------------------------------------------
(* Properties *)

\* C1: for every transaction the vendor answers at most one create-postcard
\* request with HTTP 200, whatever the sequence and interleaving of generate,
\* payment-confirmed, webhook deliveries, manual-process-payment and submit.
NoDoublePrint == \A t \in TxnIds : prints[t] <= 1

\* C2: a run of submit_to_stannp on a transaction whose stored status is
\* ready_for_payment answers with a 4xx invalid-state error and leaves the
\* stored record unchanged.
SubmitBeforePaymentRejected ==
    [][\A t \in TxnIds :
          (last'.op = "submit" /\ last'.t = t
              /\ transaction_store[t].status = "ready_for_payment")
          => /\ last'.response.code \in 400..499
             /\ transaction_store'[t] = transaction_store[t]]_vars

\* C3: whenever a create-postcard request is sent to the vendor, the stored
\* status of its transaction is payment_confirmed at that moment.
VendorCallOnlyWhenPaymentConfirmed ==
    last.call # << >> => last.call[1].stored_status = "payment_confirmed"

\* C4: submitted_to_stannp and failed are terminal: once the stored status of a
\* transaction is one of them, no step changes it.
TerminalStatuses == {"submitted_to_stannp", "failed"}

TerminalStatusKept ==
    [][\A t \in TxnIds :
          transaction_store[t].status \in TerminalStatuses
          => transaction_store'[t].status = transaction_store[t].status]_vars

\* an e-mail value that holds an address
NonEmpty(e) == e # NoKey /\ Strip(e) # ""

\* a request of generate, payment-confirmed or process-free-postcard for t that
\* carries an empty e-mail
EmptyEmailRequest(t) ==
    \/ \E ok \in BOOLEAN : Generate(t, "", ok)
    \/ \E pi \in OrderIntents, ok \in BOOLEAN : PaymentConfirmed(t, pi, "", ok)
    \/ \E q \in FreeRequests({MintedCode}, VendorResponses) :
          q.userEmail = "" /\ ProcessFreePostcard(t, "", q.code, q.stripe, q.gen_ok, q.resp)

\* C5: sticky e-mail: when the stored e-mail of a transaction is non-empty, a
\* request of generate, payment-confirmed or process-free-postcard that carries
\* an empty e-mail leaves the stored e-mail as it was.
StickyEmail ==
    [][\A t \in TxnIds :
          (NonEmpty(transaction_store[t].userEmail) /\ EmptyEmailRequest(t))
          => transaction_store'[t].userEmail = transaction_store[t].userEmail]_vars

\* C6: payment-confirmed for a transaction id that is not in the store answers
\* with a 4xx not-found error and changes no stored state: no transaction record,
\* no redemption row, no times_redeemed.
ConfirmUnknownTransactionRejected ==
    [][\A t \in TxnIds :
          (last'.op = "payment_confirmed" /\ last'.t = t /\ transaction_store[t] = NoTxn)
          => /\ last'.response.code \in 400..499
             /\ transaction_store' = transaction_store
             /\ coupon_codes' = coupon_codes
             /\ coupon_redemptions' = coupon_redemptions]_vars

NetworkFailures == {"timeout", "connection_error"}

\* the run that has just ended sent a request to the vendor
VendorCalled == last.call # << >>

\* C7: when every request of a submission times out, the client sends exactly
\* three requests, with timeouts 30, 45 and 60, sleeps 5 and then 10 between
\* them, and raises: it sleeps after the first and the second timeout only, and
\* no coroutine that has sent three requests is left waiting to send a fourth.
RetryBackoffBound ==
    /\ \A k \in TaskIds : Len(tasks[k].timeouts) < 3
    /\ Len(last.timeouts) <= 3
    /\ (VendorCalled /\ \A i \in DOMAIN last.outcomes : last.outcomes[i] = "timeout")
       => LET n == Len(last.outcomes)
          IN  /\ last.timeouts = SubSeq(<<30, 45, 60>>, 1, n)
              /\ last.waits = SubSeq(<<5, 10>>, 1, IF n < 3 THEN n ELSE 2)
              /\ n < 3 => last.kind = "sleep"
              /\ n = 3 => last.kind = "error"

\* three requests of one submission have timed out
ThreeTimeouts ==
    /\ last.outcomes = <<"timeout", "timeout", "timeout">>
    /\ last.kind = "error"

\* C8: the client retries only after a timeout or a connection failure.  A
\* non-200 HTTP answer ends the submission with an error that carries the
\* vendor's status and text; a 200 answer to request k ends it with success,
\* k requests having been sent.
RetryOnlyOnNetworkFailure ==
    /\ \A k \in TaskIds : tasks[k].pc = "sleeping"
          => \A i \in DOMAIN tasks[k].outcomes : tasks[k].outcomes[i] \in NetworkFailures
    /\ VendorCalled
       => LET resp == last.call[1].resp
              n == Len(last.outcomes)
          IN  /\ Len(last.timeouts) = n
              /\ last.call[1].timeout = AttemptTimeout(n - 1)
              /\ \A i \in 1..(n - 1) : last.outcomes[i] \in NetworkFailures
              /\ resp.kind = "http"
                 => /\ last.kind # "sleep"
                    /\ n \in 1..3
                    /\ resp.status_code = "200" => last.kind = "ok"
                    /\ resp.status_code # "200"
                       => /\ last.kind = "error"
                          /\ resp.status_code \in Range(last.detail)
                          /\ resp.text \in Range(last.detail)

\* the vendor rejected the second request of a submission, after a retry
RejectedAfterRetry ==
    /\ VendorCalled
    /\ last.call[1].resp.status_code = "400"
    /\ Len(last.outcomes) = 2

\* C9: when a submission for a payment_confirmed transaction fails at the
\* vendor, the stored status becomes failed, a notification goes to the
\* customer, and a notification goes to the administrator that contains the
\* stored payment reference.
VendorFailureHandled ==
    (VendorCalled /\ last.kind = "error"
        /\ last.call[1].stored_status = "payment_confirmed")
    => LET txn == transaction_store[last.t]
       IN  /\ txn.status = "failed"
           /\ \E i \in DOMAIN last.emails : last.emails[i].to # AdminAddress
           /\ \E i \in DOMAIN last.emails :
                 /\ last.emails[i].to = AdminAddress
                 /\ txn.stripePaymentIntentId \in EmailText(last.emails[i])

\* C10: when the vendor accepts the request for a payment_confirmed
\* transaction, the vendor's order id is stored, the stored status is
\* submitted_to_stannp, one success e-mail is dispatched, and the call reports
\* success whatever becomes of the e-mail.
VendorSuccessRecorded ==
    (VendorCalled /\ last.call[1].resp.status_code = "200"
        /\ last.call[1].stored_status = "payment_confirmed")
    => LET txn == transaction_store[last.t]
       IN  /\ txn.status = "submitted_to_stannp"
           /\ txn.stannp_id = last.call[1].resp.data_id
           /\ Len(last.emails) = 1
           /\ last.kind = "ok"

AcceptingResponses == {r \in VendorResponses : r.status_code = "200"}

\* C11: when process_paid_postcard runs for a transaction of
\* create_payment_session after its checkout.session.completed event, the
\* generation succeeds and the vendor accepts, the order ends in
\* submitted_to_stannp, as it does after payment_intent.succeeded.
CheckoutReachesSubmitted ==
    [][\A k \in TaskIds, r \in AcceptingResponses :
          (tasks[k].pc = "new_paid" /\ StartPaidTask(k, TRUE, r))
          => transaction_store'[tasks[k].t].status = "submitted_to_stannp"]_vars

\* the e-mail to the administrator is among those the latest run dispatched
AdminNotified == \E i \in DOMAIN last.emails : last.emails[i].to = AdminAddress

\* C12: when the coroutine started for an accepted checkout.session.completed
\* or payment_intent.succeeded event of a transaction the service holds comes
\* to its end, the order is submitted_to_stannp, or it is failed and the
\* administrator has been notified.
NoPaidOrderDropped ==
    (last.caller \in {"webhook", "checkout"} /\ last.op \in {"submit", "resume", "paid"}
        /\ last.kind # "sleep")
    => LET txn == transaction_store[last.t]
       IN  \/ txn.status = "submitted_to_stannp"
           \/ txn.status = "failed" /\ AdminNotified

\* the rows of coupon_redemptions for code c and transaction t
RedemptionsOf(c, t) ==
    {i \in DOMAIN coupon_redemptions :
        coupon_redemptions[i].code = c /\ coupon_redemptions[i].transaction_id = t}

\* C13: redemption is idempotent per (code, transaction): however often it is
\* recorded, one row exists for the pair and times_redeemed counts the pair once.
RedemptionIdempotent ==
    \A c \in StoredCodes :
        /\ \A t \in TxnIds : Cardinality(RedemptionsOf(c, t)) <= 1
        /\ coupon_codes[c].times_redeemed
              = Cardinality({t \in TxnIds : RedemptionsOf(c, t) # {}})

\* C14: every stored code has times_redeemed <= max_redemptions.
RedemptionsWithinMax ==
    \A c \in StoredCodes : coupon_codes[c].times_redeemed <= coupon_codes[c].max_redemptions

\* the stored codes that the typed code names, letter case aside
NamedBy(typed) == {c \in StoredCodes : coupon_codes[c].present /\ Upper(c) = Upper(typed)}

\* C15: a validation request for a code whose stored expires_at is past is
\* answered invalid, in whatever letter case the code was typed.
ExpiredCodeRejected ==
    (last.op = "validate"
        /\ \E c \in NamedBy(last.detail[1]) : now > coupon_codes[c].expires_at)
    => ~last.response.valid

RequiredPhotos ==
    [t \in NamedTemplates |->
        CASE t = "single" -> 1
          [] t \in {"two_side_by_side", "two_vertical"} -> 2
          [] t \in {"three_photos", "three_horizontal", "three_bookmarks", "three_sideways"} -> 3
          [] t = "four_quarters" -> 4
          [] t = "five_collage" -> 5
          [] t = "six_grid" -> 6]

\* C17: a generate request whose template requires more photos than it supplies
\* is answered with a validation error, not with success.
TooFewPhotosRejected ==
    (last.op = "generate" /\ Len(last.detail) = 3
        /\ last.detail[1] \in NamedTemplates
        /\ Len(last.detail[2]) > 0
        /\ Len(last.detail[2]) < RequiredPhotos[last.detail[1]])
    => (~last.response.success /\ last.response.code \in 400..499)

\* C18: for every named template, apply_template raises exactly when fewer
\* references are supplied than the template requires, and otherwise uses the
\* first N references in their order.
TemplatePhotoCount ==
    (engine_call.fn = "apply_template" /\ engine_call.template_type \in NamedTemplates)
    => LET n == RequiredPhotos[engine_call.template_type]
           supplied == Len(engine_call.image_urls)
       IN  /\ engine_call.result.kind = "ValueError" <=> supplied < n
           /\ supplied >= n =>
                 /\ engine_call.result.kind = "image"
                 /\ engine_call.result.used = SubSeq(engine_call.image_urls, 1, n)

\* four_quarters was given five references and used the first four
FourQuartersOfFive ==
    /\ engine_call.fn = "apply_template"
    /\ engine_call.template_type = "four_quarters"
    /\ Len(engine_call.image_urls) = 5
    /\ engine_call.result.used = SubSeq(engine_call.image_urls, 1, 4)

\* the words of some output lines, in order
RECURSIVE WordsOfLines(_)
WordsOfLines(lines) ==
    IF lines = << >> THEN << >> ELSE SplitWords(Head(lines)) \o WordsOfLines(Tail(lines))

\* lines is made of one group of lines per segment, in order: one empty line
\* for a blank segment, and otherwise non-empty lines that hold the words of
\* that segment and of no other
RECURSIVE SegmentWise(_, _)
SegmentWise(segments, lines) ==
    IF segments = << >> THEN lines = << >>
    ELSE IF \A i \in DOMAIN Head(segments) : IsSpace(Head(segments)[i])
    THEN /\ lines # << >>
         /\ Head(lines) = << >>
         /\ SegmentWise(Tail(segments), Tail(lines))
    ELSE \E k \in 1..Len(lines) :
            /\ \A i \in 1..k : lines[i] # << >>
            /\ WordsOfLines(SubSeq(lines, 1, k)) = SplitWords(Head(segments))
            /\ SegmentWise(Tail(segments), SubSeq(lines, k + 1, Len(lines)))

\* C19: the message is split on the user's newlines first and each segment is
\* wrapped by itself: the output is, segment by segment and in order, one empty
\* line for a blank segment and otherwise lines holding that segment's words only.
WrapKeepsUserLines ==
    engine_call.fn = "process_message_with_line_breaks"
    => SegmentWise(SplitNewline(engine_call.message), engine_call.result)

\* a, blank, b with a wide max width gives the three lines a, empty, b
BlankLineKept ==
    /\ engine_call.fn = "process_message_with_line_breaks"
    /\ engine_call.message = <<"a", "\n", "\n", "b">>
    /\ engine_call.max_width = MaxMessageLen
    /\ engine_call.result = << <<"a">>, << >>, <<"b">> >>

\* C20: for all positive source and target sizes the crop of _resize_and_crop
\* runs along one axis (the width when w/h > tw/th, otherwise the height), is
\* centred, lies inside the source and is not empty, and the result has the
\* target size.
CropCentredInsideSource ==
    engine_call.fn = "_resize_and_crop"
    => LET w == engine_call.size[1]
           h == engine_call.size[2]
           tw == engine_call.target_size[1]
           th == engine_call.target_size[2]
           left == engine_call.box[1]
           upper == engine_call.box[2]
           right == engine_call.box[3]
           lower == engine_call.box[4]
       IN  /\ IF w * th > tw * h
              THEN upper = 0 /\ lower = h /\ left = (w - (right - left)) \div 2
              ELSE left = 0 /\ right = w /\ upper = (h - (lower - upper)) \div 2
           /\ 0 <= left /\ right <= w /\ 0 <= upper /\ lower <= h
           /\ left < right /\ upper < lower
           /\ engine_call.result = engine_call.target_size

\* C21: every create-postcard payload carries test = true when the configured
\* environment is not production and test = false when it is.
TestFlagFollowsEnvironment ==
    engine_call.fn \in {"submit_to_stannp_api", "submit_to_stannp_with_transaction_data"}
    => (engine_call.payload.test = "true"
           <=> ConfiguredEnvironment(engine_call.environment) # "production")

\* the pixel size and the vendor size of each size class
SizeClasses ==
    {[class |-> "regular", vendor |-> "4x6", pixels |-> {<<1800, 1200>>}],
     [class |-> "xl", vendor |-> "6x9", pixels |-> {<<2700, 1800>>, <<2754, 1872>>}]}

\* C27: the back canvas, the front canvas and the vendor size of an order
\* belong to one size class, and front and back have the same pixel size.
OneSizeClass ==
    engine_call.fn = "order_sizes"
    => /\ \E c \in SizeClasses :
             /\ engine_call.back \in c.pixels
             /\ engine_call.front \in c.pixels
             /\ engine_call.vendor_size = c.vendor
       /\ engine_call.front = engine_call.back

\* C22: with a webhook secret configured, a webhook request whose signature
\* does not verify is refused and changes nothing: no transaction, no payment
\* session, no redemption, no submission task.
ForgedWebhookRefused ==
    [][(\/ \E type \in WebhookEventTypes, t \in TxnIds, pi \in OrderIntents,
              coupon_id \in {"", MintedStripeCouponId} :
              WebhookRequest(type, t, pi, coupon_id, TRUE, FALSE)
        \/ HandleStripeWebhook(TRUE, FALSE))
       => /\ UNCHANGED <<transaction_store, payment_sessions, coupon_codes,
                         coupon_redemptions, tasks, prints>>
          /\ ~last'.response.success
          /\ last'.response.code >= 400]_vars

\* C23: a stored code of the monthly job that is active, unexpired and under
\* its cap is found when typed in any letter case: the answer is valid, with
\* the campaign's discount and remaining_uses = max_redemptions - times_redeemed.
MintedCodeFoundInAnyCase ==
    \A c \in StoredCodes :
        (/\ last.op = "validate"
         /\ c \in NamedBy(last.detail[1])
         /\ coupon_codes[c].is_active
         /\ now <= coupon_codes[c].expires_at
         /\ coupon_codes[c].times_redeemed < coupon_codes[c].max_redemptions)
        => /\ last.response.valid
           /\ last.response.discount_percent = CampaignDiscountPercent
           /\ last.response.remaining_uses
                 = coupon_codes[c].max_redemptions - coupon_codes[c].times_redeemed

\* C24: apply_template with a template type outside the named ones does not
\* raise: it gives the single layout of the first reference.
UnknownTemplateFallsBack ==
    (engine_call.fn \in {"apply_template", "utils.apply_template"}
        /\ engine_call.template_type \notin NamedTemplates)
    => /\ engine_call.result.kind = "image"
       /\ engine_call.image_urls # << >>
             => engine_call.result.used = <<engine_call.image_urls[1]>>

\* C25: within one segment the wrap is greedy and lossless: the words of the
\* lines, in order, are the words of the segment; a line of two or more words
\* measures at most max_width; a break comes before a word only when the line
\* with that word appended would exceed max_width; a word wider than max_width
\* stands alone on its line.
WrapGreedyLossless ==
    (engine_call.fn = "process_message_with_line_breaks"
        /\ \A i \in DOMAIN engine_call.message : engine_call.message[i] # "\n")
    => LET lines == engine_call.result
           max_width == engine_call.max_width
       IN  /\ WordsOfLines(lines) = SplitWords(engine_call.message)
           /\ \A i \in DOMAIN lines :
                 /\ Len(SplitWords(lines[i])) >= 2 => TextLength(lines[i]) <= max_width
                 /\ \A k \in DOMAIN SplitWords(lines[i]) :
                       TextLength(SplitWords(lines[i])[k]) > max_width
                          => lines[i] = SplitWords(lines[i])[k]
           /\ \A i \in 1..(Len(lines) - 1) :
                 TextLength(lines[i] \o <<" ">> \o Head(SplitWords(lines[i + 1]))) > max_width

\* "a b ab" at width 3 is wrapped into the lines "a b" and "ab"
TwoWordsThenBreak ==
    /\ engine_call.fn = "process_message_with_line_breaks"
    /\ engine_call.message = <<"a", " ", "b", " ", "a", "b">>
    /\ engine_call.max_width = 3
    /\ engine_call.result = << <<"a", " ", "b">>, <<"a", "b">> >>

\* cells a and b lie side by side, a to the left, with no cell between them
LeftNeighbour(cells, a, b) ==
    /\ a.x < b.x
    /\ a.y < b.y + b.h /\ b.y < a.y + a.h
    /\ ~\E i \in DOMAIN cells : a.x < cells[i].x /\ cells[i].x < b.x
                                 /\ cells[i].y < a.y + a.h /\ a.y < cells[i].y + cells[i].h

\* cells a and b lie one above the other, a on top, with no cell between them
UpperNeighbour(cells, a, b) ==
    /\ a.y < b.y
    /\ a.x < b.x + b.w /\ b.x < a.x + a.w
    /\ ~\E i \in DOMAIN cells : a.y < cells[i].y /\ cells[i].y < b.y
                                 /\ cells[i].x < a.x + a.w /\ a.x < cells[i].x + cells[i].w

\* C26: on every canvas every layout keeps its cells inside the canvas, parts
\* neighbouring cells by exactly its gap, and reaches the right and the bottom
\* edge of the canvas.
CellsTileCanvas ==
    engine_call.fn = "layout"
    => LET cells == engine_call.layout.cells
           gap == engine_call.layout.gap
           width == engine_call.size[1]
           height == engine_call.size[2]
       IN  /\ \A i \in DOMAIN cells :
                 /\ 0 <= cells[i].x /\ cells[i].x + cells[i].w <= width
                 /\ 0 <= cells[i].y /\ cells[i].y + cells[i].h <= height
           /\ \A i, k \in DOMAIN cells :
                 /\ LeftNeighbour(cells, cells[i], cells[k])
                       => cells[k].x - (cells[i].x + cells[i].w) = gap
                 /\ UpperNeighbour(cells, cells[i], cells[k])
                       => cells[k].y - (cells[i].y + cells[i].h) = gap
           /\ \E i \in DOMAIN cells : cells[i].x + cells[i].w = width
           /\ \E i \in DOMAIN cells : cells[i].y + cells[i].h = height
           /\ \A i \in DOMAIN cells :
                 /\ (~\E k \in DOMAIN cells : LeftNeighbour(cells, cells[i], cells[k]))
                       => cells[i].x + cells[i].w = width
                 /\ (~\E k \in DOMAIN cells : UpperNeighbour(cells, cells[i], cells[k]))
                       => cells[i].y + cells[i].h = height

\* the calendar month after the month of a date
FollowingMonth(date) ==
    IF date.month = 12 THEN Date(date.year + 1, 1, 1) ELSE Date(date.year, date.month + 1, 1)

\* C28: on every date the code names the calendar month that follows the
\* month of that date, and the details report that month and its last day.
CodeNamesFollowingMonth ==
    engine_call.fn = "next_month"
    => LET following == FollowingMonth(engine_call.today)
       IN  /\ engine_call.coupon_code = "XLWelcome" \o month_abbr[following.month]
           /\ engine_call.details.month_name = month_name[following.month]
           /\ engine_call.details.year = following.year
           /\ engine_call.details.expiry_date
                 = Date(following.year, following.month,
                        monthrange(following.year, following.month))

\* the month the details report is the month the code names, and the expiry is
\* the last day of that month
DetailsAgreeWithCode ==
    engine_call.fn = "next_month"
    => \E m \in 1..12 :
          /\ engine_call.coupon_code = "XLWelcome" \o month_abbr[m]
          /\ engine_call.details.month_name = month_name[m]
          /\ engine_call.details.coupon_code = engine_call.coupon_code
          /\ engine_call.details.expiry_date.month = m
          /\ engine_call.details.expiry_date.day
                = monthrange(engine_call.details.year, m)

\* C29: a generate repeated for a transaction that is payment_confirmed leaves
\* its status payment_confirmed and its stored payment reference as they were.
RegenerateKeepsPayment ==
    [][\A t \in TxnIds, e \in Emails :
          (/\ transaction_store[t] # NoTxn
           /\ transaction_store[t].status = "payment_confirmed"
           /\ Generate(t, e, TRUE))
          => /\ transaction_store'[t].status = "payment_confirmed"
             /\ transaction_store'[t].stripePaymentIntentId
                   = transaction_store[t].stripePaymentIntentId]_vars

\* C30: a non-empty e-mail that generate or payment_confirmed brings to a
\* transaction whose stored e-mail is non-empty becomes the stored e-mail.
LastEmailWins ==
    [][\A t \in TxnIds, e \in Emails \ {""} :
          (/\ transaction_store[t] # NoTxn
           /\ Truthy(transaction_store[t].userEmail)
           /\ \/ Generate(t, e, TRUE)
              \/ \E pi \in OrderIntents, ok \in BOOLEAN : PaymentConfirmed(t, pi, e, ok))
          => transaction_store'[t].userEmail = e]_vars

\* the same of generate alone
LastEmailWinsInGenerate ==
    [][\A t \in TxnIds, e \in Emails \ {""} :
          (/\ transaction_store[t] # NoTxn
           /\ Truthy(transaction_store[t].userEmail)
           /\ Generate(t, e, TRUE))
          => transaction_store'[t].userEmail = e]_vars

====
